---- MODULE Spec2Model ----
(***************************************************************************)
(* Model of the empty-set SVG generator (src/gen-emptyset.ts and its older *)
(* revisions): the configuration resolver that layers base, preset and     *)
(* explicit numeric overrides, and the two slash-length functions.         *)
(*                                                                         *)
(* Numbers are integers.  An optional number (number | undefined in the    *)
(* source) is a sequence: <<>> is undefined and <<n>> is the number n.     *)
(***************************************************************************)
EXTENDS Integers, FiniteSets, Sequences, TLC

VARIABLES
    argv,               \* text given to each numeric flag, per flag
    ARG_PRESET,         \* lower-cased value of --preset, "" when absent
    ARG_ANGLE,          \* getNum("--angle")
    ARG_EDGE_GAP,       \* getNum("--edge-gap")
    ARG_SLASH_STROKE,   \* getNum("--slash-stroke")
    ARG_RADIUS_BOLD,    \* getNum("--radius-bold")
    ARG_RING_OUTER,     \* getNum("--ring-outer")
    ARG_RING_INNER,     \* getNum("--ring-inner")
    ARG_OVERSHOOT,      \* getNum("--overshoot")
    cfg,                \* the PreciseConfig returned by resolvePreciseConfig
    pc,                 \* position of the run
    inRadius,           \* argument radius of the slash-length functions
    inStroke,           \* argument stroke of slashLengthFor
    inEdgeGap,          \* argument edgeGap of slashLengthFor
    inOvershoot,        \* argument overshoot of slashLengthCutThrough
    outInterior,        \* result of slashLengthFor
    outCutThrough,      \* result of slashLengthCutThrough
    script,             \* which generator runs: gen-emptyset or gen-emptyset-precise
    setFlag,            \* getArg("--set")
    fault,              \* the file system: name -> where writing it fails
    files,              \* the files object of main: name -> content
    dirMade,            \* the destination directory exists
    disk,               \* files in the destination directory: name -> what
                        \* the file holds (EMPTY, PARTIAL or its content)
    attempts,           \* name -> number of fs.writeFile calls for it
    pending,            \* names whose fs.writeFile promise is not settled
    rejected,           \* names whose fs.writeFile promise has rejected
    stdout,             \* the count of the success message, once logged
    stderr,             \* an error has been logged
    exitCode            \* exit status, once the process has ended

argVars == <<argv, ARG_PRESET, ARG_ANGLE, ARG_EDGE_GAP, ARG_SLASH_STROKE,
             ARG_RADIUS_BOLD, ARG_RING_OUTER, ARG_RING_INNER, ARG_OVERSHOOT>>
geomVars == <<inRadius, inStroke, inEdgeGap, inOvershoot,
              outInterior, outCutThrough>>
runVars == <<script, setFlag, fault, files, dirMade, disk, attempts, pending,
             rejected, stdout, stderr, exitCode>>
vars == <<argv, ARG_PRESET, ARG_ANGLE, ARG_EDGE_GAP, ARG_SLASH_STROKE,
          ARG_RADIUS_BOLD, ARG_RING_OUTER, ARG_RING_INNER, ARG_OVERSHOOT,
          cfg, pc, inRadius, inStroke, inEdgeGap, inOvershoot,
          outInterior, outCutThrough,
          script, setFlag, fault, files, dirMade, disk, attempts, pending,
          rejected, stdout, stderr, exitCode>>

(***************************************************************************)
(* Bounds of the model.                                                    *)
(***************************************************************************)
\* how far outside a field's range the sampled override values lie
Margin == 1
\* largest radius, stroke, edge gap and overshoot given to the length functions
MaxRadius == 11
MaxStroke == 20
MaxGap == 6
MaxOvershoot == 3

(***************************************************************************)
(* Optional numbers.                                                       *)
(***************************************************************************)
undefined == <<>>
Num(n) == <<n>>
Val(a) == a[1]
Opt(S) == {undefined} \cup {Num(n) : n \in S}

Max(a, b) == IF a >= b THEN a ELSE b
Min(a, b) == IF a <= b THEN a ELSE b

(***************************************************************************)
(* Flag text and its conversion to a number.  A string is a sequence of    *)
(* one-character strings.  argv maps each numeric flag to undefined (no    *)
(* argument starts with "flag=") or to the text that follows "flag=".      *)
(* The texts tried hold no white space, decimal point, exponent or radix   *)
(* prefix, and Number is modelled on that alphabet.                        *)
(***************************************************************************)
NumFlags == {"--angle", "--edge-gap", "--slash-stroke", "--radius-bold",
             "--ring-outer", "--ring-inner", "--overshoot"}

DigitSeq == <<"0", "1", "2", "3", "4", "5", "6", "7", "8", "9">>
Digits == {DigitSeq[i] : i \in 1..10}
DigitVal(c) == (CHOOSE i \in 1..10 : DigitSeq[i] = c) - 1

S_empty == <<>>
S_abc == <<"a", "b", "c">>
S_NaN == <<"N", "a", "N">>
S_Infinity == <<"I", "n", "f", "i", "n", "i", "t", "y">>

RECURSIVE StrNat(_)
StrNat(n) ==
    IF n < 10 THEN <<DigitSeq[n + 1]>>
    ELSE StrNat(n \div 10) \o <<DigitSeq[(n % 10) + 1]>>
\* the decimal text of a whole number, as typed after "flag="
Str(n) == IF n < 0 THEN <<"-">> \o StrNat(0 - n) ELSE StrNat(n)

RECURSIVE ParseDigits(_)
ParseDigits(s) ==
    IF s = <<>> THEN 0
    ELSE 10 * ParseDigits(SubSeq(s, 1, Len(s) - 1)) + DigitVal(s[Len(s)])

\* Number(v) of a string: [kind, val] with kind "finite", "NaN" or "Infinity"
Number(s) ==
    LET signed == s # <<>> /\ Head(s) \in {"-", "+"}
        body == IF signed THEN Tail(s) ELSE s
        neg == signed /\ Head(s) = "-"
    IN  IF s = <<>> THEN [kind |-> "finite", val |-> 0]
        ELSE IF body = S_Infinity THEN [kind |-> "Infinity", val |-> 0]
        ELSE IF body # <<>> /\ \A i \in 1..Len(body) : body[i] \in Digits
        THEN [kind |-> "finite",
              val |-> IF neg THEN 0 - ParseDigits(body) ELSE ParseDigits(body)]
        ELSE [kind |-> "NaN", val |-> 0]

RECURSIVE BeforeEq(_)
\* the part of a string before its first "="
BeforeEq(s) ==
    IF s = <<>> \/ Head(s) = "=" THEN <<>>
    ELSE <<Head(s)>> \o BeforeEq(Tail(s))

\* match?.split("=")[1]: the text between "flag=" and the next "="
getArg(flag) ==
    IF argv[flag] = <<>> THEN <<>> ELSE <<BeforeEq(argv[flag][1])>>

\* an empty text is taken as missing
getNum_emptyMissing(flag) ==
    LET v == getArg(flag)
    IN  IF v = <<>> \/ v[1] = <<>> THEN <<>>
        ELSE LET n == Number(v[1])
             IN  IF n.kind = "finite" THEN <<n.val>> ELSE <<>>
\* a value that is not finite is passed on as 0
getNum_nonFiniteZero(flag) ==
    LET v == getArg(flag)
    IN  IF v = <<>> THEN <<>>
        ELSE <<Number(v[1]).val>>
getNum(flag) ==
    LET v == getArg(flag)
    IN  IF v = <<>> THEN <<>>
        ELSE LET n == Number(v[1])
             IN  IF n.kind = "finite" THEN <<n.val>> ELSE <<>>

(***************************************************************************)
(* The command line as the resolver sees it.                               *)
(***************************************************************************)
\* the preset names tried: none, the three known ones, and an unknown one
PresetNames == {"", "inter", "sf", "helvetica", "arial"}

\* sampled values of each numeric flag: below, inside and above its range
SlashStrokeValues == {-5, 10, 24 + Margin, 1000}
EdgeGapValues == {2 - Margin, 3, 9, 16 + Margin}
AngleValues == {-60 - Margin, -20, 0, 45}
RadiusBoldValues == {20 - Margin, 30, 46 + Margin}
RingOuterValues == {26 - Margin, 28, 30, 48 + Margin}
RingInnerValues == {14 - Margin, 22, 48 + Margin}
OvershootValues == {0 - Margin, 10, 20 + Margin}

\* the module-level ARG_* constants, gathered
Args ==
    [preset |-> ARG_PRESET, angle |-> ARG_ANGLE, edgeGap |-> ARG_EDGE_GAP,
     slashStroke |-> ARG_SLASH_STROKE, radiusBold |-> ARG_RADIUS_BOLD,
     ringOuter |-> ARG_RING_OUTER, ringInner |-> ARG_RING_INNER,
     overshoot |-> ARG_OVERSHOOT]

\* the command-line text that gives the numbers of A
TextOf(A) ==
    LET T(a) == IF a = undefined THEN undefined ELSE Num(Str(Val(a)))
    IN  [f \in NumFlags |->
            CASE f = "--angle" -> T(A.angle)
              [] f = "--edge-gap" -> T(A.edgeGap)
              [] f = "--slash-stroke" -> T(A.slashStroke)
              [] f = "--radius-bold" -> T(A.radiusBold)
              [] f = "--ring-outer" -> T(A.ringOuter)
              [] f = "--ring-inner" -> T(A.ringInner)
              [] f = "--overshoot" -> T(A.overshoot)]

NoArgs ==
    [preset |-> "", angle |-> undefined, edgeGap |-> undefined,
     slashStroke |-> undefined, radiusBold |-> undefined,
     ringOuter |-> undefined, ringInner |-> undefined,
     overshoot |-> undefined]

(***************************************************************************)
(* Configuration resolver.                                                 *)
(***************************************************************************)
PRESETS ==
    [n \in {"inter", "sf", "helvetica"} |->
        CASE n = "inter" -> [angle |-> -35, slashStroke |-> 12, edgeGap |-> 6]
          [] n = "sf" -> [angle |-> -33, slashStroke |-> 11, edgeGap |-> 6]
          [] n = "helvetica" -> [angle |-> -30, slashStroke |-> 11, edgeGap |-> 7]]

base ==
    [cx |-> 50, cy |-> 50, circleStroke |-> 14, radiusBold |-> 32,
     slashStroke |-> 12, edgeGap |-> 6, angle |-> -35, ringOuter |-> 38,
     ringInner |-> 24, knockGap |-> 7, knockRadius |-> 6, overshoot |-> 6]

\* clamp with the upper bound forgotten
clamp_noMax(n, min, max) == Max(min, n)
\* clamp with the lower bound forgotten
clamp_noMin(n, min, max) == Min(max, n)
\* Math.min(max, Math.max(min, n))
clamp(n, min, max) == Min(max, Max(min, n))

\* a name that is not a key of PRESETS picks the sf preset instead of {}
presetOf_unknownSf(name) ==
    IF name \in DOMAIN PRESETS THEN PRESETS[name]
    ELSE IF name = "" THEN [k \in {} |-> 0] ELSE PRESETS["sf"]
\* PRESETS[ARG_PRESET] ?? {}
presetOf(name) ==
    IF name \in DOMAIN PRESETS THEN PRESETS[name] ELSE [k \in {} |-> 0]

\* the spread with the left operand winning
spread_leftWins(b, p) ==
    [k \in DOMAIN b \cup DOMAIN p |-> IF k \in DOMAIN b THEN b[k] ELSE p[k]]
\* { ...b, ...p }
spread(b, p) ==
    [k \in DOMAIN b \cup DOMAIN p |-> IF k \in DOMAIN p THEN p[k] ELSE b[k]]

\* an unknown or absent preset name falls back to the sf preset
mergePreset_defaultSf(name) ==
    spread(base, IF name \in DOMAIN PRESETS THEN PRESETS[name] ELSE PRESETS["sf"])
\* merged = { ...base, ...preset }
mergePreset(name) == spread(base, presetOf(name))

\* ringInner is cut to [14, ringOuter - 6] whether or not --ring-inner is
\* given
applyOverrides_innerAlways(merged, A) ==
    LET m1 == IF A.slashStroke # undefined
              THEN [merged EXCEPT !.slashStroke = clamp(Val(A.slashStroke), 4, 24)]
              ELSE merged
        m2 == IF A.edgeGap # undefined
              THEN [m1 EXCEPT !.edgeGap = clamp(Val(A.edgeGap), 2, 16)]
              ELSE m1
        m3 == IF A.angle # undefined
              THEN [m2 EXCEPT !.angle = clamp(Val(A.angle), -60, -10)]
              ELSE m2
        m4 == IF A.radiusBold # undefined
              THEN [m3 EXCEPT !.radiusBold = clamp(Val(A.radiusBold), 20, 46)]
              ELSE m3
        m5 == IF A.ringOuter # undefined
              THEN [m4 EXCEPT !.ringOuter = clamp(Val(A.ringOuter), 26, 48)]
              ELSE m4
        m6 == [m5 EXCEPT !.ringInner =
                  clamp(IF A.ringInner # undefined
                        THEN Val(A.ringInner) ELSE m5.ringInner,
                        14, m5.ringOuter - 6)]
        m7 == IF A.overshoot # undefined
              THEN [m6 EXCEPT !.overshoot = clamp(Val(A.overshoot), 0, 20)]
              ELSE m6
    IN  m7
\* the ring-inner override is clamped before the ring-outer override is applied
applyOverrides_innerFirst(merged, A) ==
    LET m1 == IF A.slashStroke # undefined
              THEN [merged EXCEPT !.slashStroke = clamp(Val(A.slashStroke), 4, 24)]
              ELSE merged
        m2 == IF A.edgeGap # undefined
              THEN [m1 EXCEPT !.edgeGap = clamp(Val(A.edgeGap), 2, 16)]
              ELSE m1
        m3 == IF A.angle # undefined
              THEN [m2 EXCEPT !.angle = clamp(Val(A.angle), -60, -10)]
              ELSE m2
        m4 == IF A.radiusBold # undefined
              THEN [m3 EXCEPT !.radiusBold = clamp(Val(A.radiusBold), 20, 46)]
              ELSE m3
        m5 == IF A.ringInner # undefined
              THEN [m4 EXCEPT !.ringInner = clamp(Val(A.ringInner), 14, m4.ringOuter - 6)]
              ELSE m4
        m6 == IF A.ringOuter # undefined
              THEN [m5 EXCEPT !.ringOuter = clamp(Val(A.ringOuter), 26, 48)]
              ELSE m5
        m7 == IF A.overshoot # undefined
              THEN [m6 EXCEPT !.overshoot = clamp(Val(A.overshoot), 0, 20)]
              ELSE m6
    IN  m7
\* the ring-inner override is clamped to ringOuter instead of ringOuter - 6
applyOverrides_noRingMargin(merged, A) ==
    LET m1 == IF A.slashStroke # undefined
              THEN [merged EXCEPT !.slashStroke = clamp(Val(A.slashStroke), 4, 24)]
              ELSE merged
        m2 == IF A.edgeGap # undefined
              THEN [m1 EXCEPT !.edgeGap = clamp(Val(A.edgeGap), 2, 16)]
              ELSE m1
        m3 == IF A.angle # undefined
              THEN [m2 EXCEPT !.angle = clamp(Val(A.angle), -60, -10)]
              ELSE m2
        m4 == IF A.radiusBold # undefined
              THEN [m3 EXCEPT !.radiusBold = clamp(Val(A.radiusBold), 20, 46)]
              ELSE m3
        m5 == IF A.ringOuter # undefined
              THEN [m4 EXCEPT !.ringOuter = clamp(Val(A.ringOuter), 26, 48)]
              ELSE m4
        m6 == IF A.ringInner # undefined
              THEN [m5 EXCEPT !.ringInner = clamp(Val(A.ringInner), 14, m5.ringOuter)]
              ELSE m5
        m7 == IF A.overshoot # undefined
              THEN [m6 EXCEPT !.overshoot = clamp(Val(A.overshoot), 0, 20)]
              ELSE m6
    IN  m7
\* the seven "if (ARG_X !== undefined) merged.x = clamp(ARG_X, lo, hi)"
\* statements, in source order
applyOverrides(merged, A) ==
    LET m1 == IF A.slashStroke # undefined
              THEN [merged EXCEPT !.slashStroke = clamp(Val(A.slashStroke), 4, 24)]
              ELSE merged
        m2 == IF A.edgeGap # undefined
              THEN [m1 EXCEPT !.edgeGap = clamp(Val(A.edgeGap), 2, 16)]
              ELSE m1
        m3 == IF A.angle # undefined
              THEN [m2 EXCEPT !.angle = clamp(Val(A.angle), -60, -10)]
              ELSE m2
        m4 == IF A.radiusBold # undefined
              THEN [m3 EXCEPT !.radiusBold = clamp(Val(A.radiusBold), 20, 46)]
              ELSE m3
        m5 == IF A.ringOuter # undefined
              THEN [m4 EXCEPT !.ringOuter = clamp(Val(A.ringOuter), 26, 48)]
              ELSE m4
        m6 == IF A.ringInner # undefined
              THEN [m5 EXCEPT !.ringInner = clamp(Val(A.ringInner), 14, m5.ringOuter - 6)]
              ELSE m5
        m7 == IF A.overshoot # undefined
              THEN [m6 EXCEPT !.overshoot = clamp(Val(A.overshoot), 0, 20)]
              ELSE m6
    IN  m7

\* knockGap left as merged, not recomputed
deriveKnockGap_kept(merged) == merged
\* merged.knockGap = Math.max(merged.edgeGap + 1, 5)
deriveKnockGap(merged) ==
    [merged EXCEPT !.knockGap = Max(merged.edgeGap + 1, 5)]

\* the preset is merged over the explicit overrides instead of under them
resolvePreciseConfig_presetLast(A) ==
    deriveKnockGap(spread(applyOverrides(base, A), presetOf(A.preset)))
resolvePreciseConfig(A) ==
    deriveKnockGap(applyOverrides(mergePreset(A.preset), A))

(***************************************************************************)
(* Geometry calculator.  Arguments are whole numbers, so stroke / 2 is a   *)
(* multiple of one half and safeRadius is carried doubled (safeRadius2 is  *)
(* 2 * safeRadius); the returned length is then a whole number.            *)
(***************************************************************************)
\* the floor at zero forgotten
slashLengthFor_noFloor(radius, stroke, edgeGap) ==
    2 * radius - (2 * edgeGap + stroke)
slashLengthFor(radius, stroke, edgeGap) ==
    LET safeRadius2 == 2 * radius - (2 * edgeGap + stroke)
    IN  Max(0, safeRadius2)

\* the overshoot subtracted instead of added
slashLengthCutThrough_inward(radius, overshoot) ==
    Max(0, 2 * (radius - overshoot))
slashLengthCutThrough(radius, overshoot) ==
    Max(0, 2 * (radius + overshoot))

(***************************************************************************)
(* File contents.  A file's content is the record of the values that the   *)
(* generator substitutes into its text; len is the local L (or             *)
(* knockLength) the coordinates are computed from.  A cut-through length   *)
(* 2 * (R + V) and a knockout length are even, so their halves are whole   *)
(* numbers; an interior length is odd when slashStroke is odd, and the     *)
(* coordinates that can then be halves (cx -+ L / 2 of the interior slash, *)
(* cy - slashStroke / 2 of the knockout) are carried doubled.  The --label *)
(* text is left out.                                                       *)
(***************************************************************************)
STROKES == [basic |-> 8, round |-> 10, bold |-> 14, tilted |-> 10, monogram |-> 10]

SIZES ==
    [circleR_basic |-> 34, circleR_round |-> 33, circleR_bold |-> 30,
     circleR_tilted |-> 33, circleR_monogram |-> 35]

\* the values randomUUID returns, named in the order in which a run draws
\* them: no two calls return the same value
UUIDs == {"uuid-1", "uuid-2"}

\* the <circle> and the <line> inside a rotated group of a stroke variant
StrokeSvg(cx, cy, r, circleStroke, slashStroke, rotate, L, x1, y1, x2, y2) ==
    [kind |-> "stroke", cx |-> cx, cy |-> cy, r |-> r,
     circleStroke |-> circleStroke, slashStroke |-> slashStroke,
     rotate |-> rotate, len |-> L, x1 |-> x1, y1 |-> y1, x2 |-> x2, y2 |-> y2]

\* the earlier revision: the slash kept inside the circle; x1 = cx - L / 2
\* and x2 = cx + L / 2 are carried doubled
precise_emptyset_bold_interior(c) ==
    LET L == slashLengthFor(c.radiusBold, c.slashStroke, c.edgeGap)
    IN  [kind |-> "stroke", cx |-> c.cx, cy |-> c.cy, r |-> c.radiusBold,
         circleStroke |-> c.circleStroke, slashStroke |-> c.slashStroke,
         rotate |-> c.angle, len |-> L,
         x1Doubled |-> 2 * c.cx - L, y1 |-> c.cy,
         x2Doubled |-> 2 * c.cx + L, y2 |-> c.cy]
precise_emptyset_bold(c) ==
    LET L == slashLengthCutThrough(c.radiusBold, c.overshoot)
    IN  StrokeSvg(c.cx, c.cy, c.radiusBold, c.circleStroke, c.slashStroke,
                  c.angle, L, c.cx - L \div 2, c.cy, c.cx + L \div 2, c.cy)

\* the knockout kept edgeGap, not knockGap, away from the outer edge
precise_emptyset_filled_outline_edgeGap(c, uuid) ==
    LET knockLength == 2 * (c.ringOuter - c.edgeGap)
    IN  [kind |-> "filled", maskId |-> uuid, rotate |-> c.angle,
         cx |-> c.cx, cy |-> c.cy, len |-> knockLength,
         x |-> c.cx - knockLength \div 2, yDoubled |-> 2 * c.cy - c.slashStroke,
         width |-> knockLength, height |-> c.slashStroke,
         rx |-> c.knockRadius, ringOuter |-> c.ringOuter,
         ringInner |-> c.ringInner]
precise_emptyset_filled_outline(c, uuid) ==
    LET knockLength == 2 * (c.ringOuter - c.knockGap)
    IN  [kind |-> "filled", maskId |-> uuid, rotate |-> c.angle,
         cx |-> c.cx, cy |-> c.cy, len |-> knockLength,
         x |-> c.cx - knockLength \div 2, yDoubled |-> 2 * c.cy - c.slashStroke,
         width |-> knockLength, height |-> c.slashStroke,
         rx |-> c.knockRadius, ringOuter |-> c.ringOuter,
         ringInner |-> c.ringInner]

\* clamp(ARG_OVERSHOOT ?? 6, 0, 20)
legacyOvershoot(A) ==
    clamp(IF A.overshoot = undefined THEN 6 ELSE Val(A.overshoot), 0, 20)

legacy_emptyset_basic(A) ==
    LET R == SIZES.circleR_basic
        L == slashLengthCutThrough(R, legacyOvershoot(A))
    IN  StrokeSvg(50, 50, R, STROKES.basic, STROKES.basic, -45, L,
                  50 - L \div 2, 50, 50 + L \div 2, 50)

legacy_emptyset_round(A) ==
    LET R == SIZES.circleR_round
        L == slashLengthCutThrough(R, legacyOvershoot(A))
    IN  StrokeSvg(50, 50, R, STROKES.round, STROKES.round, -45, L,
                  50 - L \div 2, 50, 50 + L \div 2, 50)

\* the legacy bold circle takes its radius from --radius-bold
legacy_emptyset_bold_flagRadius(A) ==
    LET R == IF A.radiusBold = undefined THEN SIZES.circleR_bold
             ELSE clamp(Val(A.radiusBold), 20, 46)
        L == slashLengthCutThrough(R, legacyOvershoot(A))
    IN  StrokeSvg(50, 50, R, STROKES.bold, STROKES.bold, -45, L,
                  50 - L \div 2, 50, 50 + L \div 2, 50)
legacy_emptyset_bold(A) ==
    LET R == SIZES.circleR_bold
        L == slashLengthCutThrough(R, legacyOvershoot(A))
    IN  StrokeSvg(50, 50, R, STROKES.bold, STROKES.bold, -45, L,
                  50 - L \div 2, 50, 50 + L \div 2, 50)

legacy_emptyset_tilted(A) ==
    LET R == SIZES.circleR_tilted
        L == slashLengthCutThrough(R, legacyOvershoot(A))
    IN  StrokeSvg(50, 50, R, STROKES.tilted, STROKES.tilted, -40, L,
                  50 - L \div 2, 50, 50 + L \div 2, 50)

legacy_emptyset_filled_outline(uuid) ==
    [kind |-> "filled", maskId |-> uuid, rotate |-> -45, cx |-> 50, cy |-> 50,
     len |-> 70, x |-> 15, yDoubled |-> 90, width |-> 70, height |-> 10,
     rx |-> 5, ringOuter |-> 40, ringInner |-> 28]

legacy_emptyset_monogram(A) ==
    LET R == SIZES.circleR_monogram
        L == slashLengthCutThrough(R, legacyOvershoot(A))
    IN  StrokeSvg(60, 50, R, STROKES.monogram, STROKES.monogram, -45, L,
                  60 - L \div 2, 50 + L \div 2, 60 + L \div 2, 50 - L \div 2)

readmePrecise(c) ==
    [kind |-> "readme-precise",
     angleAbs |-> IF c.angle < 0 THEN 0 - c.angle ELSE c.angle,
     overshoot |-> c.overshoot, slashStroke |-> c.slashStroke]

readmeLegacy == [kind |-> "readme-legacy"]

\* the three entries main adds for the precise set
PreciseFiles(c, uuid) ==
    [n \in {"emptyset_bold.svg", "emptyset_filled_outline.svg",
            "README-precise.txt"} |->
        CASE n = "emptyset_bold.svg" -> precise_emptyset_bold(c)
          [] n = "emptyset_filled_outline.svg" ->
                 precise_emptyset_filled_outline(c, uuid)
          [] n = "README-precise.txt" -> readmePrecise(c)]

\* the seven entries main adds for the legacy set
LegacyFiles(A, uuid) ==
    [n \in {"emptyset_basic.svg", "emptyset_round.svg",
            "emptyset_bold_legacy.svg", "emptyset_tilted.svg",
            "emptyset_filled_outline_legacy.svg", "emptyset_monogram.svg",
            "README-legacy.txt"} |->
        CASE n = "emptyset_basic.svg" -> legacy_emptyset_basic(A)
          [] n = "emptyset_round.svg" -> legacy_emptyset_round(A)
          [] n = "emptyset_bold_legacy.svg" -> legacy_emptyset_bold(A)
          [] n = "emptyset_tilted.svg" -> legacy_emptyset_tilted(A)
          [] n = "emptyset_filled_outline_legacy.svg" ->
                 legacy_emptyset_filled_outline(uuid)
          [] n = "emptyset_monogram.svg" -> legacy_emptyset_monogram(A)
          [] n = "README-legacy.txt" -> readmeLegacy]

(***************************************************************************)
(* The generator gen-emptyset-precise: fixed geometry, no flags.           *)
(***************************************************************************)
CX == 50
CY == 50
CIRCLE_STROKE == 14
RADIUS_BOLD == 32
SLASH_STROKE == 12
EDGE_GAP == 6
SLASH_ANGLE == -35
R_OUTER == 38
R_INNER == 24
KNOCK_GAP == 7
KNOCK_HEIGHT == 12
KNOCK_RADIUS == 6

emptyset_bold ==
    LET L == slashLengthFor(RADIUS_BOLD, SLASH_STROKE, EDGE_GAP)
    IN  StrokeSvg(CX, CY, RADIUS_BOLD, CIRCLE_STROKE, SLASH_STROKE,
                  SLASH_ANGLE, L, CX - L \div 2, CY, CX + L \div 2, CY)

emptyset_filled_outline ==
    LET knockLength == 2 * (R_OUTER - KNOCK_GAP)
    IN  [kind |-> "filled", maskId |-> "cut", rotate |-> SLASH_ANGLE,
         cx |-> CX, cy |-> CY, len |-> knockLength,
         x |-> CX - knockLength \div 2, yDoubled |-> 2 * CY - KNOCK_HEIGHT,
         width |-> knockLength, height |-> KNOCK_HEIGHT,
         rx |-> KNOCK_RADIUS, ringOuter |-> R_OUTER, ringInner |-> R_INNER]

readme ==
    [kind |-> "readme",
     angleAbs |-> IF SLASH_ANGLE < 0 THEN 0 - SLASH_ANGLE ELSE SLASH_ANGLE,
     edgeGap |-> EDGE_GAP, knockGap |-> KNOCK_GAP]

\* the files object of gen-emptyset-precise
PreciseOnlyFiles ==
    [n \in {"emptyset_bold.svg", "emptyset_filled_outline.svg", "README.txt"} |->
        CASE n = "emptyset_bold.svg" -> emptyset_bold
          [] n = "emptyset_filled_outline.svg" -> emptyset_filled_outline
          [] n = "README.txt" -> readme]

(***************************************************************************)
(* Specification of the resolver: the command line is drawn in Init and    *)
(* resolvePreciseConfig runs once.                                         *)
(***************************************************************************)
GeomIdle ==
    /\ inRadius = 0 /\ inStroke = 0 /\ inEdgeGap = 0 /\ inOvershoot = 0
    /\ outInterior = undefined /\ outCutThrough = undefined

\* the state of a process before main has done anything
RunIdle ==
    /\ fault = <<>>
    /\ files = <<>> /\ dirMade = FALSE /\ disk = <<>> /\ attempts = <<>>
    /\ pending = {} /\ rejected = {}
    /\ stdout = undefined /\ stderr = FALSE /\ exitCode = undefined

Init ==
    /\ ARG_PRESET \in PresetNames
    /\ ARG_ANGLE \in Opt(AngleValues)
    /\ ARG_EDGE_GAP \in Opt(EdgeGapValues)
    /\ ARG_SLASH_STROKE \in Opt(SlashStrokeValues)
    /\ ARG_RADIUS_BOLD \in Opt(RadiusBoldValues)
    /\ ARG_RING_OUTER \in Opt(RingOuterValues)
    /\ ARG_RING_INNER \in Opt(RingInnerValues)
    /\ ARG_OVERSHOOT \in Opt(OvershootValues)
    /\ argv = TextOf(Args)
    /\ cfg = undefined
    /\ pc = "start"
    /\ GeomIdle
    /\ script = "gen-emptyset" /\ setFlag = undefined
    /\ RunIdle

Resolve ==
    /\ pc = "start"
    /\ cfg' = resolvePreciseConfig(Args)
    /\ pc' = "resolved"
    /\ UNCHANGED <<argVars, geomVars, runVars>>

Next == Resolve

Spec == Init /\ [][Next]_vars

(***************************************************************************)
(* Specification of flag parsing: the text of each numeric flag is drawn   *)
(* in Init, the ARG_* constants are what getNum makes of it, and the       *)
(* resolver runs once.                                                     *)
(***************************************************************************)
MalformedTexts == {S_empty, S_abc, S_NaN, S_Infinity}
ArgvPresetNames == {"", "helvetica"}

InitArgv ==
    /\ \E a \in Opt(MalformedTexts \cup {Str(12)}) :
       \E rest \in [NumFlags \ {"--slash-stroke"} -> Opt(MalformedTexts)] :
           argv = [f \in NumFlags |->
                      IF f = "--slash-stroke" THEN a ELSE rest[f]]
    /\ ARG_PRESET \in ArgvPresetNames
    /\ ARG_ANGLE = getNum("--angle")
    /\ ARG_EDGE_GAP = getNum("--edge-gap")
    /\ ARG_SLASH_STROKE = getNum("--slash-stroke")
    /\ ARG_RADIUS_BOLD = getNum("--radius-bold")
    /\ ARG_RING_OUTER = getNum("--ring-outer")
    /\ ARG_RING_INNER = getNum("--ring-inner")
    /\ ARG_OVERSHOOT = getNum("--overshoot")
    /\ cfg = undefined
    /\ pc = "start"
    /\ GeomIdle
    /\ script = "gen-emptyset" /\ setFlag = undefined
    /\ RunIdle

SpecArgv == InitArgv /\ [][Next]_vars

(***************************************************************************)
(* Specification of the geometry calculator: the arguments are drawn in    *)
(* Init and each length function is applied to them.                       *)
(***************************************************************************)
InitGeom ==
    /\ ARG_PRESET = "" /\ ARG_ANGLE = undefined /\ ARG_EDGE_GAP = undefined
    /\ ARG_SLASH_STROKE = undefined /\ ARG_RADIUS_BOLD = undefined
    /\ ARG_RING_OUTER = undefined /\ ARG_RING_INNER = undefined
    /\ ARG_OVERSHOOT = undefined
    /\ argv = [f \in NumFlags |-> undefined]
    /\ cfg = undefined
    /\ pc = "start"
    /\ inRadius \in 0..MaxRadius
    /\ inStroke \in 0..MaxStroke
    /\ inEdgeGap \in 0..MaxGap
    /\ inOvershoot \in 0..MaxOvershoot
    /\ outInterior = undefined
    /\ outCutThrough = undefined
    /\ script = "gen-emptyset" /\ setFlag = undefined
    /\ RunIdle

CallSlashLengthFor ==
    /\ outInterior = undefined
    /\ outInterior' = Num(slashLengthFor(inRadius, inStroke, inEdgeGap))
    /\ UNCHANGED <<argVars, cfg, pc, inRadius, inStroke, inEdgeGap,
                   inOvershoot, outCutThrough, runVars>>

CallSlashLengthCutThrough ==
    /\ outCutThrough = undefined
    /\ outCutThrough' = Num(slashLengthCutThrough(inRadius, inOvershoot))
    /\ UNCHANGED <<argVars, cfg, pc, inRadius, inStroke, inEdgeGap,
                   inOvershoot, outInterior, runVars>>

NextGeom == CallSlashLengthFor \/ CallSlashLengthCutThrough

SpecGeom == InitGeom /\ [][NextGeom]_vars

(***************************************************************************)
(* Specification of a run: main creates the directory, builds the files    *)
(* object, starts all writes at once and waits for them.  One fs.writeFile *)
(* is an open that creates the file empty, a data write, a close, and then *)
(* the settling of its promise; the thread pool runs the opens and data    *)
(* writes of all files in any order, in parallel with main, and            *)
(* process.exit leaves every file as it is at that moment.                 *)
(***************************************************************************)
SetNames == {"precise", "legacy", "all", "icons"}
RunOvershootValues == {0, 10}

\* what a file in the directory holds before its data is written, and after
\* a data write that failed part of the way
EMPTY == [kind |-> "empty"]
PARTIAL == [kind |-> "partial"]

\* a file system in which every write succeeds
NoFault == <<>>
\* the open of the file named n fails (EISDIR, EACCES): no file is created
OpenFault(n) == [k \in {n} |-> "open"]
\* the data write of every file of S fails (EFBIG, ENOSPC) after its open has
\* created the file
WriteFault(S) == [k \in S |-> "write"]

Run(sc, set, preset, overshoot, f) ==
    [script |-> sc, set |-> set, preset |-> preset, overshoot |-> overshoot,
     fault |-> f]

\* the runs explored: a generator, its --set, --preset and --overshoot, and
\* the condition of the file system
Runs ==
    {Run("gen-emptyset-precise", undefined, "", undefined, f) :
        f \in {NoFault, OpenFault("README.txt"),
               WriteFault({"emptyset_bold.svg", "emptyset_filled_outline.svg",
                           "README.txt"})}}
    \cup {Run("gen-emptyset", set, preset, overshoot, NoFault) :
             set \in {undefined, Num("precise")},
             preset \in {"", "helvetica"},
             overshoot \in Opt(RunOvershootValues)}
    \cup {Run("gen-emptyset", Num("precise"), "", undefined, f) :
             f \in {OpenFault("emptyset_bold.svg"),
                    WriteFault({"emptyset_bold.svg"}),
                    WriteFault({"emptyset_bold.svg",
                                "emptyset_filled_outline.svg"}),
                    WriteFault({"emptyset_bold.svg",
                                "emptyset_filled_outline.svg",
                                "README-precise.txt"})}}
    \cup {Run("gen-emptyset", Num("legacy"), "", overshoot, NoFault) :
             overshoot \in Opt(RunOvershootValues)}
    \cup {Run("gen-emptyset", Num("legacy"), "helvetica", Num(10), f) :
             f \in {OpenFault("emptyset_monogram.svg"),
                    WriteFault({"emptyset_monogram.svg"})}}
    \cup {Run("gen-emptyset", Num("all"), "helvetica", Num(10), NoFault),
          Run("gen-emptyset", Num("all"), "", undefined,
              OpenFault("emptyset_bold.svg")),
          Run("gen-emptyset", Num("icons"), "", undefined, NoFault)}

OpenFails(n) == n \in DOMAIN fault /\ fault[n] = "open"
WriteFails(n) == n \in DOMAIN fault /\ fault[n] = "write"

\* --set missing selects the legacy set
ARG_SET_defaultLegacy == IF setFlag = undefined THEN "legacy" ELSE Val(setFlag)
\* getArg("--set") ?? "precise"
ARG_SET == IF setFlag = undefined THEN "precise" ELSE Val(setFlag)

\* the legacy entries replace the files object instead of extending it
BuildFiles_legacyReplaces(A, set, u1, u2) ==
    LET f1 == IF set \in {"precise", "all"}
              THEN spread(<<>>, PreciseFiles(resolvePreciseConfig(A), u1))
              ELSE <<>>
    IN  IF set \in {"legacy", "all"} THEN LegacyFiles(A, u2) ELSE f1
\* the files object main of gen-emptyset builds
BuildFiles(A, set, u1, u2) ==
    LET f1 == IF set \in {"precise", "all"}
              THEN spread(<<>>, PreciseFiles(resolvePreciseConfig(A), u1))
              ELSE <<>>
    IN  IF set \in {"legacy", "all"}
        THEN spread(f1, LegacyFiles(A, u2))
        ELSE f1

\* every generator leaves one file out of the count
LoggedCount_minusOne(sc, f) == Cardinality(DOMAIN f) - 1
\* the number in the success message
LoggedCount(sc, f) ==
    IF sc = "gen-emptyset-precise"
    THEN Cardinality(DOMAIN f) - 1
    ELSE Cardinality(DOMAIN f)

InitRun ==
    /\ \E r \in Runs :
           /\ script = r.script
           /\ setFlag = r.set
           /\ ARG_PRESET = r.preset
           /\ ARG_OVERSHOOT = r.overshoot
           /\ fault = r.fault
    /\ ARG_ANGLE = undefined /\ ARG_EDGE_GAP = undefined
    /\ ARG_SLASH_STROKE = undefined /\ ARG_RADIUS_BOLD = undefined
    /\ ARG_RING_OUTER = undefined /\ ARG_RING_INNER = undefined
    /\ argv = TextOf(Args)
    /\ cfg = undefined
    /\ pc = "main"
    /\ GeomIdle
    /\ files = <<>> /\ dirMade = FALSE /\ disk = <<>> /\ attempts = <<>>
    /\ pending = {} /\ rejected = {}
    /\ stdout = undefined /\ stderr = FALSE /\ exitCode = undefined

\* await fs.mkdir(out, { recursive: true }) succeeds
Mkdir ==
    /\ pc = "main"
    /\ dirMade' = TRUE
    /\ pc' = "made"
    /\ UNCHANGED <<argVars, geomVars, cfg, script, setFlag, fault, files,
                   disk, attempts, pending, rejected, stdout, stderr,
                   exitCode>>

\* await fs.mkdir rejects: the catch logs the error and exits with 1
MkdirFail ==
    /\ pc = "main"
    /\ stderr' = TRUE
    /\ exitCode' = Num(1)
    /\ pc' = "exited"
    /\ UNCHANGED <<argVars, geomVars, cfg, script, setFlag, fault, files,
                   dirMade, disk, attempts, pending, rejected, stdout>>

\* the files object is built and fs.writeFile is called once per entry, up
\* to the await of Promise.all.  The first call of randomUUID in the run
\* returns "uuid-1" and the second "uuid-2".  The opens are handed to the
\* thread pool as the calls are made, so some files may exist, empty, before
\* main waits.
StartWrites ==
    /\ pc = "made"
    /\ files' = IF script = "gen-emptyset-precise"
                THEN PreciseOnlyFiles
                ELSE BuildFiles(Args, ARG_SET,
                                IF ARG_SET = "legacy" THEN "uuid-2" ELSE "uuid-1",
                                IF ARG_SET = "legacy" THEN "uuid-1" ELSE "uuid-2")
    /\ cfg' = IF script = "gen-emptyset" /\ ARG_SET \in {"precise", "all"}
              THEN resolvePreciseConfig(Args)
              ELSE cfg
    /\ attempts' = [n \in DOMAIN files' |-> 1]
    /\ pending' = DOMAIN files'
    /\ \E opened \in SUBSET {n \in DOMAIN files' : ~OpenFails(n)} :
           disk' = [n \in opened |-> EMPTY]
    /\ pc' = "writing"
    /\ UNCHANGED <<argVars, geomVars, script, setFlag, fault, dirMade,
                   rejected, stdout, stderr, exitCode>>

\* thread pool: the open of one fs.writeFile creates the file, empty
Open ==
    /\ pc = "writing"
    /\ \E n \in pending \ DOMAIN disk :
           /\ ~OpenFails(n)
           /\ disk' = spread(disk, [k \in {n} |-> EMPTY])
    /\ UNCHANGED <<argVars, geomVars, cfg, pc, script, setFlag, fault, files,
                   dirMade, attempts, pending, rejected, stdout, stderr,
                   exitCode>>

\* the data written to a file is the content of some file still in flight
WriteData_sharedContent ==
    /\ pc = "writing"
    /\ \E n \in pending \cap DOMAIN disk, m \in pending :
           /\ disk[n] = EMPTY
           /\ ~WriteFails(n)
           /\ disk' = [disk EXCEPT ![n] = files[m]]
    /\ UNCHANGED <<argVars, geomVars, cfg, pc, script, setFlag, fault, files,
                   dirMade, attempts, pending, rejected, stdout, stderr,
                   exitCode>>
\* thread pool: the data of one fs.writeFile is written, the file is complete
WriteData ==
    /\ pc = "writing"
    /\ \E n \in pending \cap DOMAIN disk :
           /\ disk[n] = EMPTY
           /\ ~WriteFails(n)
           /\ disk' = [disk EXCEPT ![n] = files[n]]
    /\ UNCHANGED <<argVars, geomVars, cfg, pc, script, setFlag, fault, files,
                   dirMade, attempts, pending, rejected, stdout, stderr,
                   exitCode>>

\* thread pool: a data write that fails after writing part of the content
WriteCut ==
    /\ pc = "writing"
    /\ \E n \in pending \cap DOMAIN disk :
           /\ disk[n] = EMPTY
           /\ WriteFails(n)
           /\ disk' = [disk EXCEPT ![n] = PARTIAL]
    /\ UNCHANGED <<argVars, geomVars, cfg, pc, script, setFlag, fault, files,
                   dirMade, attempts, pending, rejected, stdout, stderr,
                   exitCode>>

\* the promise of one fs.writeFile resolves, after the file is complete and
\* closed.  A rejection is followed by the catch before any other promise
\* settles, so nothing resolves after one.
WriteOk ==
    /\ pc = "writing"
    /\ rejected = {}
    /\ \E n \in pending \cap DOMAIN disk :
           /\ disk[n] = files[n]
           /\ pending' = pending \ {n}
    /\ UNCHANGED <<argVars, geomVars, cfg, pc, script, setFlag, fault, files,
                   dirMade, disk, attempts, rejected, stdout, stderr,
                   exitCode>>

\* the promise of one fs.writeFile rejects: its open failed and there is no
\* file, or its data write failed and left the file empty or cut short
WriteFail ==
    /\ pc = "writing"
    /\ rejected = {}
    /\ \E n \in pending :
           /\ \/ OpenFails(n) /\ n \notin DOMAIN disk
              \/ /\ WriteFails(n)
                 /\ n \in DOMAIN disk
                 /\ disk[n] \in {EMPTY, PARTIAL}
           /\ rejected' = rejected \cup {n}
           /\ pending' = pending \ {n}
    /\ UNCHANGED <<argVars, geomVars, cfg, pc, script, setFlag, fault, files,
                   dirMade, disk, attempts, stdout, stderr, exitCode>>

\* the writes are not awaited: the success message is logged while some
\* are still in flight
Finish_notAwaited ==
    /\ pc = "writing"
    /\ rejected = {}
    /\ stdout' = Num(LoggedCount(script, files))
    /\ exitCode' = Num(0)
    /\ pc' = "done"
    /\ UNCHANGED <<argVars, geomVars, cfg, script, setFlag, fault, files,
                   dirMade, disk, attempts, pending, rejected, stderr>>
\* Promise.all resolves: the success message is logged
Finish ==
    /\ pc = "writing"
    /\ pending = {}
    /\ rejected = {}
    /\ stdout' = Num(LoggedCount(script, files))
    /\ exitCode' = Num(0)
    /\ pc' = "done"
    /\ UNCHANGED <<argVars, geomVars, cfg, script, setFlag, fault, files,
                   dirMade, disk, attempts, pending, rejected, stderr>>

\* the rejection is swallowed: the run goes on to the success message
Catch_swallow ==
    /\ pc = "writing"
    /\ rejected # {}
    /\ stdout' = Num(LoggedCount(script, files))
    /\ exitCode' = Num(0)
    /\ pc' = "done"
    /\ UNCHANGED <<argVars, geomVars, cfg, script, setFlag, fault, files,
                   dirMade, disk, attempts, pending, rejected, stderr>>
\* Promise.all rejects: the catch logs the error and process.exit(1) ends
\* the process with the other writes wherever they are
Catch ==
    /\ pc = "writing"
    /\ rejected # {}
    /\ stderr' = TRUE
    /\ exitCode' = Num(1)
    /\ pc' = "exited"
    /\ UNCHANGED <<argVars, geomVars, cfg, script, setFlag, fault, files,
                   dirMade, disk, attempts, pending, rejected, stdout>>

NextRun ==
    \/ Mkdir
    \/ MkdirFail
    \/ StartWrites
    \/ Open
    \/ WriteData
    \/ WriteCut
    \/ WriteOk
    \/ WriteFail
    \/ Finish
    \/ Catch

SpecRun == InitRun /\ [][NextRun]_vars

TypeOK ==
    /\ pc \in {"start", "resolved", "main", "made", "writing", "done", "exited"}
    /\ (pc = "resolved") => (cfg # undefined)
    /\ (pc = "start") => (cfg = undefined)
    /\ DOMAIN disk \subseteq DOMAIN files
    /\ pending \cup rejected \subseteq DOMAIN files
    /\ \A n \in DOMAIN fault : fault[n] \in {"open", "write"}
    /\ cfg # undefined => DOMAIN cfg = DOMAIN base
    /\ ARG_ANGLE = getNum("--angle")
    /\ ARG_EDGE_GAP = getNum("--edge-gap")
    /\ ARG_SLASH_STROKE = getNum("--slash-stroke")
    /\ ARG_RADIUS_BOLD = getNum("--radius-bold")
    /\ ARG_RING_OUTER = getNum("--ring-outer")
    /\ ARG_RING_INNER = getNum("--ring-inner")
    /\ ARG_OVERSHOOT = getNum("--overshoot")

(***************************************************************************)
(* Properties of the resolver (checked under Spec).                        *)
(***************************************************************************)
Resolved == pc = "resolved"

\* v limited to [lo, hi], written without Min and Max
Limited(v, lo, hi) == IF v < lo THEN lo ELSE IF v > hi THEN hi ELSE v

\* C1: in every resolved configuration ringInner <= ringOuter - 6.
C1_RingInvariant ==
    Resolved => cfg.ringInner <= cfg.ringOuter - 6

\* C2: in every resolved configuration knockGap is max(edgeGap + 1, 5) of the
\* resolved edgeGap, so it is at least edgeGap + 1 and at least 5, whatever
\* the preset and the overrides.
C2_KnockGapDerived ==
    Resolved =>
        /\ cfg.knockGap = (IF cfg.edgeGap + 1 >= 5 THEN cfg.edgeGap + 1 ELSE 5)
        /\ cfg.knockGap >= cfg.edgeGap + 1
        /\ cfg.knockGap >= 5

\* the helvetica preset moves edgeGap to 7 and knockGap follows to 8
C2_Witness ==
    /\ Resolved
    /\ ARG_PRESET = "helvetica"
    /\ ARG_EDGE_GAP = undefined
    /\ cfg.edgeGap = 7
    /\ cfg.knockGap = 8

\* C3: in every resolved configuration each range-limited field lies in its
\* range, whichever of base, preset or override supplied it.
C3_FieldsInRange ==
    Resolved =>
        /\ cfg.slashStroke >= 4 /\ cfg.slashStroke <= 24
        /\ cfg.edgeGap >= 2 /\ cfg.edgeGap <= 16
        /\ cfg.angle >= -60 /\ cfg.angle <= -10 /\ cfg.angle < 0
        /\ cfg.radiusBold >= 20 /\ cfg.radiusBold <= 46
        /\ cfg.ringOuter >= 26 /\ cfg.ringOuter <= 48
        /\ cfg.overshoot >= 0 /\ cfg.overshoot <= 20

\* one field from an override above its range, one from a preset, one from base
C3_Witness ==
    /\ Resolved
    /\ ARG_PRESET = "sf"
    /\ ARG_SLASH_STROKE = Num(1000)
    /\ ARG_ANGLE = undefined
    /\ ARG_RADIUS_BOLD = undefined
    /\ cfg.slashStroke = 24
    /\ cfg.angle = -33
    /\ cfg.radiusBold = 32

\* C4: each numeric override that is present resolves to
\* min(max, max(min, value)) over its field's range; slashStroke 1000 gives
\* 24, slashStroke -5 gives 4, and an angle >= 0 gives -10.
C4_OverrideClamped ==
    Resolved =>
        /\ ARG_SLASH_STROKE # undefined =>
               cfg.slashStroke = Limited(Val(ARG_SLASH_STROKE), 4, 24)
        /\ ARG_EDGE_GAP # undefined =>
               cfg.edgeGap = Limited(Val(ARG_EDGE_GAP), 2, 16)
        /\ ARG_ANGLE # undefined =>
               cfg.angle = Limited(Val(ARG_ANGLE), -60, -10)
        /\ ARG_RADIUS_BOLD # undefined =>
               cfg.radiusBold = Limited(Val(ARG_RADIUS_BOLD), 20, 46)
        /\ ARG_RING_OUTER # undefined =>
               cfg.ringOuter = Limited(Val(ARG_RING_OUTER), 26, 48)
        /\ ARG_RING_INNER # undefined =>
               cfg.ringInner = Limited(Val(ARG_RING_INNER), 14, cfg.ringOuter - 6)
        /\ ARG_OVERSHOOT # undefined =>
               cfg.overshoot = Limited(Val(ARG_OVERSHOOT), 0, 20)
        /\ ARG_SLASH_STROKE = Num(1000) => cfg.slashStroke = 24
        /\ ARG_SLASH_STROKE = Num(-5) => cfg.slashStroke = 4
        /\ (ARG_ANGLE # undefined /\ Val(ARG_ANGLE) >= 0) => cfg.angle = -10

\* a slashStroke below its range and a positive angle
C4_Witness ==
    /\ Resolved
    /\ ARG_SLASH_STROKE = Num(-5)
    /\ ARG_ANGLE = Num(45)
    /\ cfg.slashStroke = 4
    /\ cfg.angle = -10

\* C5: for a field set both by the preset and by an explicit override (angle,
\* slashStroke, edgeGap) the resolved value is the clamped override, the same
\* under every preset.
C5_OverrideBeatsPreset ==
    Resolved =>
        \A p \in PresetNames :
            LET other == resolvePreciseConfig([Args EXCEPT !.preset = p])
            IN  /\ ARG_ANGLE # undefined =>
                       /\ cfg.angle = Limited(Val(ARG_ANGLE), -60, -10)
                       /\ other.angle = cfg.angle
                /\ ARG_SLASH_STROKE # undefined =>
                       /\ cfg.slashStroke = Limited(Val(ARG_SLASH_STROKE), 4, 24)
                       /\ other.slashStroke = cfg.slashStroke
                /\ ARG_EDGE_GAP # undefined =>
                       /\ cfg.edgeGap = Limited(Val(ARG_EDGE_GAP), 2, 16)
                       /\ other.edgeGap = cfg.edgeGap

\* helvetica sets edgeGap 7, angle -30 and slashStroke 11; the overrides win
C5_Witness ==
    /\ Resolved
    /\ ARG_PRESET = "helvetica"
    /\ ARG_EDGE_GAP = Num(9)
    /\ ARG_ANGLE = Num(-20)
    /\ ARG_SLASH_STROKE = Num(10)
    /\ cfg.edgeGap = 9
    /\ cfg.angle = -20
    /\ cfg.slashStroke = 10

\* C6: with no preset and no override the resolved configuration is the base
\* configuration in every field, knockGap 7 and overshoot 6 included.
C6_NoArgsGivesBase ==
    (Resolved /\ Args = NoArgs) =>
        /\ cfg = base
        /\ cfg = [cx |-> 50, cy |-> 50, circleStroke |-> 14, radiusBold |-> 32,
                  slashStroke |-> 12, edgeGap |-> 6, angle |-> -35,
                  ringOuter |-> 38, ringInner |-> 24, knockGap |-> 7,
                  knockRadius |-> 6, overshoot |-> 6]

C6_Witness ==
    /\ Resolved
    /\ Args = NoArgs
    /\ cfg.knockGap = 7
    /\ cfg.overshoot = 6

\* C7: when the ring-inner override is present the resolved ringInner lies in
\* [14, R - 6], R being the resolved ringOuter (its own override applied
\* first); the range is never empty.
C7_RingInnerRange ==
    Resolved =>
        /\ cfg.ringOuter = (IF ARG_RING_OUTER # undefined
                            THEN Limited(Val(ARG_RING_OUTER), 26, 48)
                            ELSE 38)
        /\ cfg.ringOuter - 6 >= 14
        /\ ARG_RING_INNER # undefined =>
               /\ cfg.ringInner >= 14
               /\ cfg.ringInner <= cfg.ringOuter - 6

\* ringOuter overridden down to 26, so ringInner 22 is cut to 20
C7_Witness ==
    /\ Resolved
    /\ ARG_RING_OUTER # undefined
    /\ cfg.ringOuter = 26
    /\ ARG_RING_INNER = Num(22)
    /\ cfg.ringInner = 20

\* C8: in every resolved configuration 0 < ringInner < ringOuter, also when
\* only one of the two radii is overridden.
C8_RingPositiveThickness ==
    Resolved =>
        /\ cfg.ringInner < cfg.ringOuter
        /\ cfg.ringInner > 0

\* only ringOuter overridden, to its smallest value
C8_Witness ==
    /\ Resolved
    /\ ARG_RING_OUTER # undefined
    /\ ARG_RING_INNER = undefined
    /\ cfg.ringOuter = 26
    /\ cfg.ringInner = 24

(***************************************************************************)
(* Properties of the geometry calculator (checked under SpecGeom).         *)
(***************************************************************************)
\* C9: for R, T, G >= 0, slashLengthFor(R, T, G) is max(0, 2*(R - G - T/2)):
\* never negative, 0 whenever G + T/2 >= R, and slashLengthFor(10, 20, 6) = 0.
C9_InteriorLength ==
    outInterior # undefined =>
        LET L == Val(outInterior)
        IN  /\ L >= 0
            /\ (2 * inEdgeGap + inStroke >= 2 * inRadius) => L = 0
            /\ (2 * inEdgeGap + inStroke < 2 * inRadius) =>
                   L = 2 * inRadius - 2 * inEdgeGap - inStroke
            /\ (inRadius = 10 /\ inStroke = 20 /\ inEdgeGap = 6) => L = 0

\* the degenerate case of the claim
C9_Witness ==
    /\ inRadius = 10
    /\ inStroke = 20
    /\ inEdgeGap = 6
    /\ outInterior = Num(0)

\* C10: for R, V >= 0, slashLengthCutThrough(R, V) is max(0, 2*(R + V)), and
\* it increases with R (V fixed) and with V (R fixed).
C10_CutThroughLength ==
    outCutThrough # undefined =>
        LET L == Val(outCutThrough)
        IN  /\ L = 2 * (inRadius + inOvershoot)
            /\ L >= 0
            /\ \A r \in 0..MaxRadius :
                   /\ r >= inRadius => slashLengthCutThrough(r, inOvershoot) >= L
                   /\ r > inRadius => slashLengthCutThrough(r, inOvershoot) > L
            /\ \A v \in 0..MaxOvershoot :
                   /\ v >= inOvershoot => slashLengthCutThrough(inRadius, v) >= L
                   /\ v > inOvershoot => slashLengthCutThrough(inRadius, v) > L

C10_Witness ==
    /\ inRadius = 10
    /\ inOvershoot = 3
    /\ outCutThrough = Num(26)

\* C12: an unknown preset name is not an error and contributes nothing: for
\* every combination of overrides the configuration resolved with an unknown
\* name is the one resolved with no preset.
C12_UnknownPresetIsNoPreset ==
    (Resolved /\ ARG_PRESET \notin {"", "inter", "sf", "helvetica"}) =>
        /\ cfg = resolvePreciseConfig([Args EXCEPT !.preset = ""])
        /\ ARG_ANGLE = undefined => cfg.angle = -35
        /\ ARG_SLASH_STROKE = undefined => cfg.slashStroke = 12
        /\ ARG_EDGE_GAP = undefined => cfg.edgeGap = 6

\* the unknown name with one override and the other preset fields at base
C12_Witness ==
    /\ Resolved
    /\ ARG_PRESET = "arial"
    /\ ARG_ANGLE = Num(-20)
    /\ ARG_SLASH_STROKE = undefined
    /\ cfg.angle = -20
    /\ cfg.slashStroke = 12
    /\ cfg.edgeGap = 6

NoOverrides ==
    /\ ARG_ANGLE = undefined /\ ARG_EDGE_GAP = undefined
    /\ ARG_SLASH_STROKE = undefined /\ ARG_RADIUS_BOLD = undefined
    /\ ARG_RING_OUTER = undefined /\ ARG_RING_INNER = undefined
    /\ ARG_OVERSHOOT = undefined

\* C13: with a known preset and no override, the fields the preset names
\* (angle, slashStroke, edgeGap) take the preset's values, every other field
\* keeps its base value, and knockGap is recomputed from the merged edgeGap.
C13_PresetMerge ==
    (Resolved /\ NoOverrides) =>
        /\ ARG_PRESET = "inter" =>
               cfg.angle = -35 /\ cfg.slashStroke = 12 /\ cfg.edgeGap = 6
        /\ ARG_PRESET = "sf" =>
               cfg.angle = -33 /\ cfg.slashStroke = 11 /\ cfg.edgeGap = 6
        /\ ARG_PRESET = "helvetica" =>
               cfg.angle = -30 /\ cfg.slashStroke = 11 /\ cfg.edgeGap = 7
        /\ ARG_PRESET \in {"inter", "sf", "helvetica"} =>
               /\ \A k \in DOMAIN PRESETS[ARG_PRESET] :
                      cfg[k] = PRESETS[ARG_PRESET][k]
               /\ cfg.cx = 50 /\ cfg.cy = 50 /\ cfg.circleStroke = 14
               /\ cfg.radiusBold = 32 /\ cfg.ringOuter = 38
               /\ cfg.ringInner = 24 /\ cfg.knockRadius = 6
               /\ cfg.overshoot = 6
               /\ cfg.knockGap = cfg.edgeGap + 1

C13_Witness ==
    /\ Resolved
    /\ NoOverrides
    /\ ARG_PRESET = "helvetica"
    /\ cfg.angle = -30
    /\ cfg.slashStroke = 11
    /\ cfg.edgeGap = 7
    /\ cfg.knockGap = 8
    /\ cfg.radiusBold = 32

(***************************************************************************)
(* Properties of flag parsing (checked under SpecArgv).                    *)
(***************************************************************************)
\* the configuration field each numeric flag sets
FieldOf ==
    [f \in NumFlags |->
        CASE f = "--angle" -> "angle"
          [] f = "--edge-gap" -> "edgeGap"
          [] f = "--slash-stroke" -> "slashStroke"
          [] f = "--radius-bold" -> "radiusBold"
          [] f = "--ring-outer" -> "ringOuter"
          [] f = "--ring-inner" -> "ringInner"
          [] f = "--overshoot" -> "overshoot"]

\* a text is a numeral: an optional sign and then one or more digits
WellFormed(s) ==
    LET body == IF s # <<>> /\ Head(s) \in {"-", "+"} THEN Tail(s) ELSE s
    IN  body # <<>> /\ \A i \in 1..Len(body) : body[i] \in Digits

\* the flag f is treated as absent: no number, field left as base/preset
TreatedAsAbsent(f) ==
    /\ Args[FieldOf[f]] = undefined
    /\ cfg[FieldOf[f]] = mergePreset(ARG_PRESET)[FieldOf[f]]

\* C14: for every numeric flag a missing or malformed value (empty string,
\* non-numeric text, NaN, Infinity) is treated as absent: the resolved field
\* keeps its base/preset value.
C14_MalformedIsAbsent ==
    Resolved =>
        \A f \in NumFlags :
            (argv[f] = undefined \/ ~WellFormed(Val(argv[f]))) =>
                TreatedAsAbsent(f)

\* C14, the part the code does keep: a missing value and a malformed value
\* other than the empty string are treated as absent.
C14_NonEmptyMalformedIsAbsent ==
    Resolved =>
        \A f \in NumFlags :
            (argv[f] = undefined
               \/ (~WellFormed(Val(argv[f])) /\ Val(argv[f]) # S_empty)) =>
                TreatedAsAbsent(f)

(***************************************************************************)
(* Properties of a run (checked under SpecRun).                            *)
(***************************************************************************)
PreciseNames ==
    {"emptyset_bold.svg", "emptyset_filled_outline.svg", "README-precise.txt"}
LegacyNames ==
    {"emptyset_basic.svg", "emptyset_round.svg", "emptyset_bold_legacy.svg",
     "emptyset_tilted.svg", "emptyset_filled_outline_legacy.svg",
     "emptyset_monogram.svg", "README-legacy.txt"}

\* the files object has been built
Built == pc \in {"writing", "done"} \/ (pc = "exited" /\ dirMade)
\* the files object has just been built: no file is created yet and no
\* promise has settled
JustBuilt ==
    pc = "writing" /\ pending = DOMAIN files /\ rejected = {} /\ disk = <<>>
\* the files of the directory that hold their whole content
Written == {n \in DOMAIN disk : disk[n] = files[n]}
\* the directory creation or a write has failed
Failed == rejected # {} \/ (pc = "exited" /\ ~dirMade)

\* C11 as stated: with the base configuration the slash length computed for
\* emptyset_bold.svg is 40.
C11_BaseSlashLengthIs40 ==
    (script = "gen-emptyset" /\ Args = NoArgs
       /\ "emptyset_bold.svg" \in DOMAIN files) =>
        files["emptyset_bold.svg"].len = 40

\* C11 amended: with the base configuration gen-emptyset computes the
\* cut-through length 2*(32+6) = 76 for emptyset_bold.svg; 40 is the interior
\* length of radiusBold 32, slashStroke 12, edgeGap 6, which is the length of
\* emptyset_bold.svg in gen-emptyset-precise and in the earlier revision of
\* precise_emptyset_bold.
C11_BaseSlashLength ==
    (Args = NoArgs /\ "emptyset_bold.svg" \in DOMAIN files) =>
        /\ script = "gen-emptyset" =>
               /\ files["emptyset_bold.svg"].len = 76
               /\ files["emptyset_bold.svg"].x1 = 12
               /\ files["emptyset_bold.svg"].x2 = 88
               /\ precise_emptyset_bold_interior(cfg).len = 40
               /\ precise_emptyset_bold_interior(cfg).x1Doubled = 60
               /\ precise_emptyset_bold_interior(cfg).x2Doubled = 140
        /\ script = "gen-emptyset-precise" =>
               /\ files["emptyset_bold.svg"].len = 40
               /\ files["emptyset_bold.svg"].x1 = 30
               /\ files["emptyset_bold.svg"].x2 = 70

C11_Witness ==
    /\ script = "gen-emptyset"
    /\ Args = NoArgs
    /\ pc = "done"
    /\ "emptyset_bold.svg" \in DOMAIN disk
    /\ disk["emptyset_bold.svg"].r = 32
    /\ disk["emptyset_bold.svg"].len = 76

\* C15: when the directory creation or a write fails, the run logs the error
\* and exits with a non-zero status, never logs the success message, and
\* calls fs.writeFile at most once per file.
C15_FailureAborts ==
    /\ \A n \in DOMAIN attempts : attempts[n] <= 1
    /\ \A n \in rejected : n \notin Written
    /\ Failed => (stdout = undefined /\ pc # "done")
    /\ (Failed /\ exitCode # undefined) =>
           (stderr /\ Val(exitCode) # 0 /\ pc = "exited")
    /\ (Failed /\ pc = "writing") => ENABLED Catch
    /\ pc = "exited" => Failed

\* one write of ten failed and the run has ended with the nine other files
\* created and still empty
C15_Witness ==
    /\ pc = "exited"
    /\ script = "gen-emptyset"
    /\ rejected = {"emptyset_bold.svg"}
    /\ Cardinality(DOMAIN disk) = 9
    /\ \A n \in DOMAIN disk : disk[n] = EMPTY
    /\ stderr
    /\ exitCode = Num(1)
    /\ stdout = undefined

\* the names of the SVG files among the entries of d
SvgNames(d) == {n \in DOMAIN d : d[n].kind \in {"stroke", "filled"}}

\* C16 as stated: on every successful run the count in the final message is
\* the number of files written to the destination directory.
C16_CountIsFilesWritten ==
    pc = "done" => Val(stdout) = Cardinality(Written)

\* C16 amended: on a successful run of gen-emptyset the count in the final
\* message is the number of files written; gen-emptyset-precise reports the
\* number of SVG files written, one less than the number of files written.
C16_CountReported ==
    pc = "done" =>
        /\ Written = DOMAIN disk
        /\ script = "gen-emptyset" =>
               Val(stdout) = Cardinality(Written)
        /\ script = "gen-emptyset-precise" =>
               /\ Val(stdout) = Cardinality(SvgNames(disk))
               /\ Val(stdout) = Cardinality(Written) - 1

C16_Witness ==
    /\ pc = "done"
    /\ script = "gen-emptyset"
    /\ setFlag = Num("legacy")
    /\ stdout = Num(7)
    /\ Cardinality(Written) = 7

\* C17: --set=precise, and a missing --set, writes exactly the 3 precise
\* files, --set=legacy exactly the 7 legacy files, --set=all exactly their
\* union of 10 distinct names, with every precise file kept as built.
C17_SetSelection ==
    (script = "gen-emptyset" /\ Built) =>
        /\ (setFlag = undefined \/ setFlag = Num("precise")) =>
               DOMAIN files = PreciseNames
        /\ setFlag = Num("legacy") => DOMAIN files = LegacyNames
        /\ setFlag = Num("all") =>
               /\ DOMAIN files = PreciseNames \cup LegacyNames
               /\ Cardinality(DOMAIN files) = 10
        /\ Cardinality(PreciseNames) = 3
        /\ Cardinality(LegacyNames) = 7
        /\ PreciseNames \cap LegacyNames = {}
        /\ \A n \in PreciseNames \cap DOMAIN files :
               \E u \in UUIDs : files[n] = PreciseFiles(cfg, u)[n]
        /\ pc = "done" => (DOMAIN disk = DOMAIN files /\ Written = DOMAIN files)

C17_Witness ==
    /\ script = "gen-emptyset"
    /\ pc = "done"
    /\ setFlag = Num("all")
    /\ Cardinality(DOMAIN disk) = 10
    /\ disk["emptyset_bold.svg"].r = 32
    /\ disk["emptyset_bold_legacy.svg"].r = 30

\* every command line that agrees with the current one on --overshoot
AltArgs ==
    [preset : PresetNames, angle : Opt(AngleValues),
     edgeGap : Opt(EdgeGapValues), slashStroke : Opt(SlashStrokeValues),
     radiusBold : Opt(RadiusBoldValues), ringOuter : Opt(RingOuterValues),
     ringInner : Opt(RingInnerValues), overshoot : {ARG_OVERSHOOT}]

\* the overshoot a run with --overshoot a uses: 6 by default, cut to [0, 20]
EffectiveOvershoot(a) == Limited(IF a = undefined THEN 6 ELSE Val(a), 0, 20)

\* C18: --overshoot changes the slash length of every stroke variant, precise
\* and legacy; --preset, --angle, --edge-gap, --slash-stroke, --radius-bold,
\* --ring-outer and --ring-inner leave every legacy variant as it is: two runs
\* that differ only in those flags build the same legacy files.
C18_FlagScope ==
    (script = "gen-emptyset" /\ JustBuilt) =>
        /\ \A A2 \in AltArgs :
               \A n \in LegacyNames \cap DOMAIN files :
                   LET u == IF files[n].kind = "filled"
                            THEN files[n].maskId ELSE "uuid-1"
                   IN  LegacyFiles(A2, u)[n] = files[n]
        /\ \A v \in Opt(OvershootValues \cup RunOvershootValues) :
               LET alt == BuildFiles([Args EXCEPT !.overshoot = v], ARG_SET,
                                     "uuid-1", "uuid-1")
               IN  \A n \in DOMAIN files :
                       files[n].kind = "stroke" =>
                           /\ alt[n].r = files[n].r
                           /\ alt[n].len - files[n].len =
                                  2 * (EffectiveOvershoot(v)
                                         - EffectiveOvershoot(ARG_OVERSHOOT))

\* all ten files built with a preset and --overshoot=10
C18_Witness ==
    /\ script = "gen-emptyset"
    /\ JustBuilt
    /\ setFlag = Num("all")
    /\ ARG_PRESET = "helvetica"
    /\ ARG_OVERSHOOT = Num(10)
    /\ files["emptyset_basic.svg"].len = 88
    /\ files["emptyset_bold_legacy.svg"].len = 80
    /\ files["emptyset_bold.svg"].len = 84

\* C19: in every run, for every admissible --overshoot, the slash of each
\* stroke variant overshoots its circle: both end points lie farther from
\* the centre than the circle radius.
C19_StrokeSlashOvershoots ==
    (script = "gen-emptyset" /\ Built) =>
        \A n \in DOMAIN files :
            files[n].kind = "stroke" =>
                LET f == files[n]
                    d1 == (f.x1 - f.cx) * (f.x1 - f.cx)
                            + (f.y1 - f.cy) * (f.y1 - f.cy)
                    d2 == (f.x2 - f.cx) * (f.x2 - f.cx)
                            + (f.y2 - f.cy) * (f.y2 - f.cy)
                IN  d1 > f.r * f.r /\ d2 > f.r * f.r

\* C20: the writes of one run are independent: the names are pairwise
\* distinct, each is written once, no write puts anything but its own
\* content into its own file, and whatever the order in which the writes
\* complete the directory ends with the same files and contents.
C20_WritesIndependent ==
    Built =>
        /\ \A n \in DOMAIN disk : disk[n] \in {EMPTY, PARTIAL, files[n]}
        /\ \A n \in DOMAIN files : attempts[n] = 1
        /\ pending \cap rejected = {}
        /\ \A n \in DOMAIN files \ (pending \cup rejected) :
               n \in Written
        /\ pc = "done" => disk = files
        /\ (script = "gen-emptyset" /\ ARG_SET = "all") =>
               Cardinality(DOMAIN files) = 10

\* two files whose contents differ are both in place at the end
C20_Witness ==
    /\ pc = "done"
    /\ script = "gen-emptyset"
    /\ ARG_SET = "all"
    /\ disk = files
    /\ disk["emptyset_basic.svg"] # disk["emptyset_round.svg"]
    /\ disk["emptyset_filled_outline.svg"].maskId = "uuid-1"
    /\ disk["emptyset_filled_outline_legacy.svg"].maskId = "uuid-2"

\* the squared distance of the point (x, y) from the centre of the file f
Dist2(f, x, y) == (x - f.cx) * (x - f.cx) + (y - f.cy) * (y - f.cy)

\* both end points of the slash of f at distance d from the centre, each the
\* mirror image of the other through the centre
EndsAt(f, d) ==
    /\ Dist2(f, f.x1, f.y1) = d * d
    /\ Dist2(f, f.x2, f.y2) = d * d
    /\ f.x1 + f.x2 = 2 * f.cx
    /\ f.y1 + f.y2 = 2 * f.cy

\* C21: in every cut-through stroke variant (precise bold and legacy basic,
\* round, bold, tilted and monogram) both slash end points, before rotation,
\* lie at distance exactly R + V from the circle centre, R the radius of the
\* variant and V the clamped overshoot, and mirror each other through the
\* centre.
C21_EndpointsAtRPlusV ==
    (script = "gen-emptyset" /\ Built) =>
        \A n \in DOMAIN files :
            files[n].kind = "stroke" =>
                EndsAt(files[n], files[n].r + EffectiveOvershoot(ARG_OVERSHOOT))

\* C21, the part the code does keep: the variants whose slash is drawn on
\* the horizontal through the centre have their end points at R + V, and the
\* monogram end points mirror each other but lie on the diagonal of the
\* square of half-side R + V, at squared distance 2 * (R + V)^2.
C21_HorizontalEndpointsAtRPlusV ==
    (script = "gen-emptyset" /\ Built) =>
        \A n \in DOMAIN files :
            files[n].kind = "stroke" =>
                LET f == files[n]
                    d == f.r + EffectiveOvershoot(ARG_OVERSHOOT)
                IN  IF n = "emptyset_monogram.svg"
                    THEN /\ Dist2(f, f.x1, f.y1) = 2 * d * d
                         /\ Dist2(f, f.x2, f.y2) = 2 * d * d
                         /\ f.x1 + f.x2 = 2 * f.cx
                         /\ f.y1 + f.y2 = 2 * f.cy
                    ELSE EndsAt(f, d)

(***************************************************************************)
(* Properties of the files built from a resolved configuration (checked    *)
(* under Spec).                                                            *)
(***************************************************************************)
\* C22: for every resolved configuration the knockout length of the filled
\* variant is 2 * (ringOuter - knockGap), it is never negative although no
\* floor at zero is applied to it, its half-length is at most ringOuter - 5,
\* so both ends of the knockout are inside the outer edge of the ring, and
\* with the base configuration it is 62.
C22_KnockoutLength ==
    Resolved =>
        \A u \in UUIDs :
            LET f == precise_emptyset_filled_outline(cfg, u)
            IN  /\ f.len = 2 * (cfg.ringOuter - cfg.knockGap)
                /\ f.len >= 0
                /\ 2 * (f.ringOuter - 5) >= f.len
                /\ f.width = f.len
                /\ f.x >= f.cx - f.ringOuter + 5
                /\ f.x + f.width <= f.cx + f.ringOuter - 5
                /\ Args = NoArgs =>
                       (f.ringOuter = 38 /\ cfg.knockGap = 7 /\ f.len = 62)

\* the shortest knockout: the smallest ring with the widest gap
C22_Witness ==
    /\ Resolved
    /\ ARG_RING_OUTER = Num(26 - Margin)
    /\ ARG_EDGE_GAP = Num(16 + Margin)
    /\ cfg.ringOuter = 26
    /\ cfg.knockGap = 17
    /\ precise_emptyset_filled_outline(cfg, "uuid-1").len = 18
    /\ precise_emptyset_filled_outline(cfg, "uuid-1").x = 41

(***************************************************************************)
(* Ordering of a run (checked under SpecRun).                              *)
(***************************************************************************)
\* C23: no file write starts before the creation of the destination
\* directory has completed, and the success message is logged only after
\* every write of the selected set has completed successfully.
C23_RunOrdering ==
    /\ (files # <<>> \/ attempts # <<>> \/ pending # {} \/ rejected # {}
          \/ disk # <<>>) => dirMade
    /\ ~dirMade => pc \in {"main", "exited"}
    /\ stdout # undefined =>
           /\ dirMade
           /\ pending = {}
           /\ rejected = {}
           /\ DOMAIN disk = DOMAIN files
           /\ \A n \in DOMAIN files : attempts[n] = 1 /\ disk[n] = files[n]
           /\ script = "gen-emptyset" =>
                  DOMAIN files =
                      (IF ARG_SET \in {"precise", "all"}
                       THEN PreciseNames ELSE {})
                      \cup (IF ARG_SET \in {"legacy", "all"}
                            THEN LegacyNames ELSE {})
           /\ stderr = FALSE
    /\ (pc = "writing" /\ pending # {}) => stdout = undefined

\* the success message after all ten writes of --set=all
C23_Witness ==
    /\ pc = "done"
    /\ script = "gen-emptyset"
    /\ ARG_SET = "all"
    /\ dirMade
    /\ stdout = Num(10)
    /\ pending = {}
    /\ Cardinality(DOMAIN disk) = 10

(***************************************************************************)
(* Frame of the resolver (checked under Spec).                             *)
(***************************************************************************)
\* the value a field has after the preset named p is merged over the base
\* configuration: the three presets set angle, slashStroke and edgeGap only
BaseOrPreset(p, field) ==
    CASE field = "angle" ->
             (CASE p = "sf" -> -33 [] p = "helvetica" -> -30 [] OTHER -> -35)
      [] field = "slashStroke" ->
             (IF p \in {"sf", "helvetica"} THEN 11 ELSE 12)
      [] field = "edgeGap" -> (IF p = "helvetica" THEN 7 ELSE 6)
      [] field = "radiusBold" -> 32
      [] field = "ringOuter" -> 38
      [] field = "ringInner" -> 24
      [] field = "overshoot" -> 6

\* C24: for every preset name and every combination of explicit overrides
\* the resolved cx, cy, circleStroke and knockRadius are the base values 50,
\* 50, 14 and 6, and each of slashStroke, edgeGap, angle, radiusBold,
\* ringOuter, ringInner and overshoot keeps its base/preset value when its
\* own override is absent, whatever the other overrides are.
C24_ResolverFrame ==
    Resolved =>
        /\ cfg.cx = 50
        /\ cfg.cy = 50
        /\ cfg.circleStroke = 14
        /\ cfg.knockRadius = 6
        /\ \A f \in NumFlags :
               Args[FieldOf[f]] = undefined =>
                   cfg[FieldOf[f]] = BaseOrPreset(ARG_PRESET, FieldOf[f])

\* ringInner keeps its base value next to an override of ringOuter, and
\* angle its preset value next to overrides of the other preset fields
C24_Witness ==
    /\ Resolved
    /\ ARG_PRESET = "helvetica"
    /\ ARG_RING_OUTER = Num(28)
    /\ ARG_RING_INNER = undefined
    /\ ARG_ANGLE = undefined
    /\ ARG_SLASH_STROKE = Num(10)
    /\ ARG_EDGE_GAP = Num(9)
    /\ cfg.ringOuter = 28
    /\ cfg.ringInner = 24
    /\ cfg.angle = -30
    /\ cfg.circleStroke = 14

====
